---------------------------- MODULE Spec2Model ----------------------------
(***************************************************************************)
(* Model of src/src/price_monitor.py (ZalandoPriceBot): the resilient      *)
(* price fetch get_price with its retry/backoff helper _handle_retry, and  *)
(* the background monitoring loop check_prices that calls it.              *)
(*                                                                         *)
(* A thread of control is "mon" (the daemon thread started in run, which   *)
(* executes check_prices) or "cmd" (the dispatcher thread that executes    *)
(* the command handlers).  The state of a get_price activation is indexed  *)
(* by the thread that runs it.                                             *)
(***************************************************************************)
EXTENDS Integers, Sequences, FiniteSets, TLC

VARIABLES
    products,     \* self.products: chat -> sequence of [url, name, last_price]
    saved,        \* content of data/products.json
    retry_count,  \* self.retry_count: dict url -> int (a partial function)
    gp,           \* thread -> position inside get_price ("idle" outside)
    gurl,         \* thread -> url argument of the running get_price
    headers,      \* thread -> User-Agent index of the local `headers`
    warm,         \* thread -> outcome of the warm-up GET of the running frame
    resp,         \* thread -> local `response` of the running get_price
    exc,          \* thread -> exception raised in the try block of line 123
    ret,          \* thread -> outcome of the last get_price call
    gets,         \* thread -> GETs of the target url issued by the running call
    blocked,      \* thread -> 403 responses received by the running call
    lastEv,       \* thread -> last timing/IO event of the thread
    rets,         \* url -> results of _handle_retry since the counter was last reset
    mpc,          \* position of the monitoring thread inside check_prices
    chatsLeft,    \* remaining part of list(self.products.keys())
    chat,         \* chat_id of the running outer iteration
    items,        \* remaining part of list(self.products[chat_id].items())
    item,         \* (url, data) of the running inner iteration
    checked,      \* products for which get_price was called in this cycle
    delays,       \* per-product delays (line 425) slept in this cycle
    sendOk,       \* outcome of the last send_message of the monitoring thread
    keys,         \* list(self.products.keys()): the chats of the store, in order
    writing,      \* thread -> state of its `with open(self.data_file, 'w')`
    cpc,          \* position of the dispatcher thread inside a handler
    cop,          \* handler the dispatcher thread is running
    cchat,        \* chat_id of the update being handled
    carg,         \* context.args[0] of the /add being handled
    remove_urls,  \* self._remove_urls: button index -> url
    keyboards,    \* chat -> the keyboards sent to it, each the urls of its buttons
    reply,        \* last reply of a handler to its chat
    keys0,        \* the value of keys when the running handler was entered
    label,        \* url of the product the pressed button was labelled with
    page,         \* a parsed document: its elements in document order
    found,        \* index in page of the element the price lookup returns
    price_text,   \* price_element.text.strip() of line 225
    price,        \* result of lines 225-238 applied to price_text
    shop          \* the responses the shop gives to a GET of a product URL

vars == <<products, saved, retry_count, gp, gurl, headers, warm, resp, exc, ret, gets,
          blocked, lastEv, rets, mpc, chatsLeft, chat, items, item, checked,
          delays, sendOk, keys, writing, cpc, cop, cchat, carg, remove_urls,
          keyboards, reply, keys0, label, page, found, price_text, price, shop>>

storeVars == <<products, keys, saved, writing>>
gpVars == <<gp, gurl, headers, warm, resp, exc, ret, gets, blocked>>
monVars == <<mpc, chatsLeft, chat, items, item, checked, delays, sendOk>>
cmdVars == <<cpc, cop, cchat, carg, remove_urls, keyboards, reply, keys0, label>>
extractVars == <<page, found, price_text, price>>

-----------------------------------------------------------------------------
(* Program constants *)

CHECK_INTERVAL == 3600
MIN_DELAY == 10
MAX_DELAY == 20
NumUserAgents == 4
MaxRetries == 3
BackoffBase == 30
BackoffCap == 300
RecoverySleep == 60
CentsThreshold == 1000

(* Bounds of the model *)

MaxProducts == 2
MaxTextLen == 4
MaxElements == 3

Threads == {"mon", "cmd"}
Chats == <<"c1", "c2">>
Urls == {"u1", "u2"}

NoUrl == "no_url"
NoArg == "no_arg"
NoName == "no_name"
NoElem == <<"no_element">>
Invalid == [m |-> -1, k |-> 0]
NoPrice == [m |-> -2, k |-> 0]

Min(a, b) == IF a < b THEN a ELSE b

RECURSIVE Pow(_, _)
Pow(b, n) == IF n = 0 THEN 1 ELSE b * Pow(b, n - 1)

-----------------------------------------------------------------------------
(* Price text normalisation, lines 225-238.  A text is a sequence of        *)
(* characters; "^2" stands for SUPERSCRIPT TWO, a character for which       *)
(* str.isdigit() is true and which float() rejects.  A parsed price is the  *)
(* decimal m / 10^k in lowest form ([m, k] with k = 0 or m not a multiple   *)
(* of 10), so that equal numbers are equal records.                         *)

AsciiDigits == <<"0", "1", "2", "3", "4", "5", "6", "7", "8", "9">>

IsAsciiDigit(c) == \E i \in 1..10 : AsciiDigits[i] = c

IsDigit(c) == IsAsciiDigit(c) \/ c = "^2"

DigitValue(c) == (CHOOSE i \in 1..10 : AsciiDigits[i] = c) - 1

RECURSIVE Canon(_, _)
Canon(m, k) == IF k > 0 /\ m % 10 = 0 THEN Canon(m \div 10, k - 1)
               ELSE [m |-> m, k |-> k]

IsZero(p) == p.m = 0

\* line 227: ''.join(c for c in price_text if c.isdigit() or c in '.,')
CleanText(text) == SelectSeq(text, LAMBDA c : IsDigit(c) \/ c = "." \/ c = ",")

\* line 228: price_text.replace(',', '.')
ReplaceComma(s) == [i \in 1..Len(s) |-> IF s[i] = "," THEN "." ELSE s[i]]

DotPositions(s) == {i \in 1..Len(s) : s[i] = "."}

LastDot(s) == CHOOSE i \in DotPositions(s) : \A j \in DotPositions(s) : j <= i

\* a variant of line 232 that joins every part: ''.join(parts)
JoinAllParts(s) == SelectSeq(s, LAMBDA c : c # ".")

\* lines 230-232: ''.join(parts[:-1]) + '.' + parts[-1]
JoinThousands(s) ==
    IF Cardinality(DotPositions(s)) > 1
    THEN SelectSeq(SubSeq(s, 1, LastDot(s) - 1), LAMBDA c : c # ".")
         \o <<".">> \o SubSeq(s, LastDot(s) + 1, Len(s))
    ELSE s

NormalizeText(text) == JoinThousands(ReplaceComma(CleanText(text)))

RECURSIVE DigitsToNat(_)
DigitsToNat(s) == IF s = <<>> THEN 0
                  ELSE 10 * DigitsToNat(SubSeq(s, 1, Len(s) - 1)) + DigitValue(s[Len(s)])

\* line 234: float(price_text) of a text of digits and '.'
ParseFloat(s) ==
    LET digits == SelectSeq(s, LAMBDA c : c # ".")
        k == IF DotPositions(s) = {} THEN 0 ELSE Len(s) - LastDot(s)
    IN  IF \/ digits = <<>>
           \/ Cardinality(DotPositions(s)) > 1
           \/ \E i \in 1..Len(digits) : ~IsAsciiDigit(digits[i])
        THEN Invalid
        ELSE Canon(DigitsToNat(digits), k)

\* lines 225-238
ParsePrice(text) ==
    LET s == NormalizeText(text)
        v == ParseFloat(s)
    IN  IF v = Invalid THEN Invalid
        ELSE IF v.k = 0 /\ v.m > CentsThreshold /\ DotPositions(s) = {}
             THEN Canon(v.m, 2)
             ELSE v

-----------------------------------------------------------------------------
(* Documents.  A document is what lines 159-223 see in it: whether its      *)
(* text contains "captcha", the stripped text of the element the name       *)
(* lookup finds (NoName when it finds none), and its elements in document   *)
(* order, each with its tag, its attributes and its text.                   *)

HasEuroAndDigit(text) ==
    /\ \E i \in 1..Len(text) : text[i] = "EUR"
    /\ \E i \in 1..Len(text) : IsDigit(text[i])

El(tag, attrs, text) == [tag |-> tag, attrs |-> attrs, text |-> text]

Sel(tag, attr, val) == [tag |-> tag, attr |-> attr, val |-> val]

\* lines 197-203
price_selectors ==
    << Sel("span", "data-testid", "product-price"),
       Sel("span", "class", "sDq_FX"),
       Sel("span", "class", "VfpFfd"),
       Sel("span", "class", "QPDz2E"),
       Sel("p", "data-testid", "price") >>

\* line 217
FallbackTags == {"span", "p", "div"}

\* soup.find_all(tag, attrs) returns the elements of that tag that carry
\* the attribute value, in document order
Matches(el, sel) == el.tag = sel.tag /\ <<sel.attr, sel.val>> \in el.attrs

\* the first index of the set, 0 for the empty set
First(idx) == IF idx = {} THEN 0 ELSE CHOOSE i \in idx : \A j \in idx : i <= j

\* a variant of lines 207-211 that looks at the first match only (soup.find)
SelectorFirstMatch(elems, sel) ==
    LET m == First({i \in 1..Len(elems) : Matches(elems[i], sel)})
    IN  IF m # 0 /\ HasEuroAndDigit(elems[m].text) THEN m ELSE 0

\* lines 207-211: the first match of the selector with a currency symbol
\* and a digit in its text
SelectorHit(elems, sel) ==
    First({i \in 1..Len(elems) :
              Matches(elems[i], sel) /\ HasEuroAndDigit(elems[i].text)})

\* lines 206-213: the selectors from the k-th on, in list order
RECURSIVE TrySelectors(_, _)
TrySelectors(elems, k) ==
    IF k > Len(price_selectors) THEN 0
    ELSE IF SelectorHit(elems, price_selectors[k]) # 0
    THEN SelectorHit(elems, price_selectors[k])
    ELSE TrySelectors(elems, k + 1)

\* lines 215-220
FallbackHit(elems) ==
    First({i \in 1..Len(elems) :
              elems[i].tag \in FallbackTags /\ HasEuroAndDigit(elems[i].text)})

\* lines 205-220: the index of price_element in the document, 0 for None
PriceLookup(elems) ==
    IF TrySelectors(elems, 1) # 0 THEN TrySelectors(elems, 1) ELSE FallbackHit(elems)

\* lines 205-225: the text of price_element
FindPriceElement(doc) ==
    IF PriceLookup(doc.prices) = 0 THEN NoElem
    ELSE doc.prices[PriceLookup(doc.prices)].text

\* an element the first selector matches
PriceSpan(text) == El("span", {<<"data-testid", "product-price">>}, text)

T5 == <<"5", ",", "0", "0", " ", "EUR">>
T0 == <<"EUR", "0">>
TBad == <<"EUR", "^2">>
TSale == <<"s", "a", "l", "e">>

Doc(c, n, p) == [captcha |-> c, name |-> n, prices |-> p]

GoodDocs == {Doc(FALSE, "Shoe", <<PriceSpan(TSale), PriceSpan(T5)>>),
             Doc(FALSE, "Shoe", <<PriceSpan(T0)>>),
             Doc(FALSE, "", <<PriceSpan(T5)>>)}

BadDocs == {Doc(TRUE, "Shoe", <<PriceSpan(T5)>>), Doc(FALSE, NoName, <<PriceSpan(T5)>>),
            Doc(FALSE, "Shoe", <<PriceSpan(TSale)>>),
            Doc(FALSE, "Shoe", <<PriceSpan(TBad)>>)}

Docs == GoodDocs \cup BadDocs

ErrorBody == Doc(FALSE, NoName, <<>>)

\* Final statuses a session.get with allow_redirects=True can return.
ErrorStatuses == {403, 404, 500}

\* 300 stands for the 3xx statuses that are final although redirects are
\* followed (not a redirect status, or no Location header)
Responses == [status : {200}, body : Docs]
             \cup [status : {300},
                    body : {Doc(FALSE, "Shoe", <<PriceSpan(TSale), PriceSpan(T5)>>),
                            ErrorBody}]
             \cup [status : ErrorStatuses, body : {ErrorBody}]

NoResp == [status |-> 0, body |-> ErrorBody]

\* line 157: Response.raise_for_status raises HTTPError for 4xx and 5xx
RaisesForStatus(status) == status >= 400 /\ status < 600

\* lines 159-244: what the rest of the try block does with a response that
\* passed raise_for_status: the exception it raises, or the pair it returns
Extract(doc) ==
    IF doc.captcha THEN [kind |-> "raise", exc |-> "ValueError", why |-> "captcha"]
    ELSE IF doc.name = NoName
    THEN [kind |-> "raise", exc |-> "ValueError", why |-> "name"]
    ELSE IF FindPriceElement(doc) = NoElem
    THEN [kind |-> "raise", exc |-> "ValueError", why |-> "price"]
    ELSE IF ParsePrice(FindPriceElement(doc)) = Invalid
    THEN [kind |-> "raise", exc |-> "ValueError", why |-> "number"]
    ELSE [kind |-> "pair", price |-> ParsePrice(FindPriceElement(doc)),
          name |-> doc.name]

\* Extract, tabulated over the documents of the model
Extracted == [d \in Docs \cup {ErrorBody} |-> Extract(d)]

-----------------------------------------------------------------------------
(* get_price, lines 122-249, and _handle_retry, lines 108-120, run by       *)
(* thread t.  The recursive call of line 153 returns its result unchanged   *)
(* through the frame that made it, so it is a jump back to the first line   *)
(* with fresh locals.                                                       *)

None == [kind |-> "none"]
NoRet == [kind |-> "running"]

Ev(kind, secs) == [kind |-> kind, secs |-> secs]

\* uniform(a, b) is represented by its two end points
Uniform(a, b) == {a, b}

Counter(u) == IF u \in DOMAIN retry_count THEN retry_count[u] ELSE 0

\* a variant of line 151 that also takes a server error for a block
IsBlockedOrServerError(status) == status \in {403, 500}

\* line 151
IsBlocked(status) == status = 403

\* a variant of get_price without line 241
KeepOnSuccess(rc, u) == rc

\* line 241: self.retry_count[url] = 0
ResetOnSuccess(rc, u) == (u :> 0) @@ rc

\* a variant of line 114 with the exponent off by one
BackoffDoubled(c) == Min(BackoffCap, BackoffBase * Pow(2, c))

\* line 114; a counter of 0 (reset by the other thread since line 113)
\* gives 30 * 2 ** -1 = 15.0
Backoff(c) ==
    Min(BackoffCap, IF c >= 1 THEN BackoffBase * Pow(2, c - 1)
                    ELSE BackoffBase \div Pow(2, 1 - c))

\* variants of line 117 with the comparison off by one, either way
GiveUpEarly(c) == c >= MaxRetries - 1

GiveUpLate(c) == c > MaxRetries

\* line 117
GiveUp(c) == c >= MaxRetries

ExceptionKinds == {"RequestException", "HTTPError", "ValueError", "Exception"}

\* a variant of line 246: except ValueError
CatchesValueError(kind) == kind = "ValueError"

\* line 246: except Exception
OuterCatches(kind) == kind \in ExceptionKinds

\* entry of a frame of get_price: no local is bound
Enter(t, u) ==
    /\ gp' = [gp EXCEPT ![t] = "headers1"]
    /\ gurl' = [gurl EXCEPT ![t] = u]
    /\ headers' = [headers EXCEPT ![t] = 0]
    /\ warm' = [warm EXCEPT ![t] = "none"]
    /\ resp' = [resp EXCEPT ![t] = NoResp]
    /\ exc' = [exc EXCEPT ![t] = "none"]
    /\ ret' = [ret EXCEPT ![t] = NoRet]

\* the call made by a caller (line 304 or line 395)
Call(t, u) ==
    /\ Enter(t, u)
    /\ gets' = [gets EXCEPT ![t] = 0]
    /\ blocked' = [blocked EXCEPT ![t] = 0]
    /\ lastEv' = [lastEv EXCEPT ![t] = Ev("call", 0)]

\* an exception of class `kind` raised inside the try block of line 123:
\* the handler of lines 246-249 logs it and returns (None, None); an
\* exception it does not catch leaves get_price
Raise(t, kind) ==
    /\ gp' = [gp EXCEPT ![t] = "return"]
    /\ exc' = [exc EXCEPT ![t] = kind]
    /\ ret' = [ret EXCEPT ![t] = IF OuterCatches(kind) THEN None
                                 ELSE [kind |-> "raise", exc |-> kind]]

\* line 124
Headers1(t) ==
    /\ gp[t] = "headers1"
    /\ \E ua \in 1..NumUserAgents : headers' = [headers EXCEPT ![t] = ua]
    /\ gp' = [gp EXCEPT ![t] = "warmup"]
    /\ UNCHANGED <<storeVars, retry_count, gurl, warm, resp, exc, ret, gets,
                   blocked, lastEv, rets, monVars, cmdVars, extractVars>>
    /\ UNCHANGED shop

\* a variant of lines 127-135 without the inner try: a failed warm-up GET
\* reaches the handler of line 246
WarmupAborts(t) ==
    /\ gp[t] = "warmup"
    /\ \E ok \in BOOLEAN :
         /\ warm' = [warm EXCEPT ![t] = IF ok THEN "ok" ELSE "failed"]
         /\ IF ok THEN /\ gp' = [gp EXCEPT ![t] = "warmsleep"]
                       /\ UNCHANGED <<exc, ret>>
            ELSE Raise(t, "RequestException")
    /\ lastEv' = [lastEv EXCEPT ![t] = Ev("get_home", 0)]
    /\ headers' = [headers EXCEPT ![t] = 0]
    /\ UNCHANGED <<storeVars, retry_count, gurl, resp, gets, blocked, rets, monVars, cmdVars, extractVars>>
    /\ UNCHANGED shop

\* lines 127-135: the warm-up GET; its exception is logged and dropped
Warmup(t) ==
    /\ gp[t] = "warmup"
    /\ \E ok \in BOOLEAN :
         /\ gp' = [gp EXCEPT ![t] = IF ok THEN "warmsleep" ELSE "delay"]
         /\ warm' = [warm EXCEPT ![t] = IF ok THEN "ok" ELSE "failed"]
    /\ lastEv' = [lastEv EXCEPT ![t] = Ev("get_home", 0)]
    /\ headers' = [headers EXCEPT ![t] = 0]   \* not read again before line 141
    /\ UNCHANGED <<storeVars, retry_count, gurl, resp, exc, ret,
                   gets, blocked, rets, monVars, cmdVars, extractVars>>
    /\ UNCHANGED shop

\* line 133
WarmSleep(t) ==
    /\ gp[t] = "warmsleep"
    /\ \E d \in Uniform(2, 4) : lastEv' = [lastEv EXCEPT ![t] = Ev("sleep_warm", d)]
    /\ gp' = [gp EXCEPT ![t] = "delay"]
    /\ UNCHANGED <<storeVars, retry_count, gurl, headers, warm, resp, exc, ret,
                   gets, blocked, rets, monVars, cmdVars, extractVars>>
    /\ UNCHANGED shop

\* a variant of get_price without line 138
NoDelay(t) ==
    /\ gp[t] = "delay"
    /\ gp' = [gp EXCEPT ![t] = "headers2"]
    /\ UNCHANGED <<storeVars, retry_count, gurl, headers, warm, resp, exc, ret,
                   gets, blocked, lastEv, rets, monVars, cmdVars, extractVars>>
    /\ UNCHANGED shop

\* line 138
Delay(t) ==
    /\ gp[t] = "delay"
    /\ \E d \in Uniform(MIN_DELAY, MAX_DELAY) :
         lastEv' = [lastEv EXCEPT ![t] = Ev("delay", d)]
    /\ gp' = [gp EXCEPT ![t] = "headers2"]
    /\ UNCHANGED <<storeVars, retry_count, gurl, headers, warm, resp, exc, ret,
                   gets, blocked, rets, monVars, cmdVars, extractVars>>
    /\ UNCHANGED shop

\* line 141
Headers2(t) ==
    /\ gp[t] = "headers2"
    /\ \E ua \in 1..NumUserAgents : headers' = [headers EXCEPT ![t] = ua]
    /\ gp' = [gp EXCEPT ![t] = "fetch"]
    /\ UNCHANGED <<storeVars, retry_count, gurl, warm, resp, exc, ret, gets,
                   blocked, lastEv, rets, monVars, cmdVars, extractVars>>
    /\ UNCHANGED shop

\* lines 144-149: the GET of the target URL returns a response
Fetch(t) ==
    /\ gp[t] = "fetch"
    /\ \E r \in shop : resp' = [resp EXCEPT ![t] = r]
    /\ gp' = [gp EXCEPT ![t] = "check"]
    /\ gets' = [gets EXCEPT ![t] = @ + 1]
    /\ lastEv' = [lastEv EXCEPT ![t] = Ev("get_target", 0)]
    /\ headers' = [headers EXCEPT ![t] = 0]   \* not read after line 146
    /\ UNCHANGED <<storeVars, retry_count, gurl, warm, exc, ret, blocked, rets,
                   monVars, cmdVars, extractVars>>
    /\ UNCHANGED shop

\* lines 144-149: the GET of the target URL raises (connection error, timeout)
FetchFails(t) ==
    /\ gp[t] = "fetch"
    /\ Raise(t, "RequestException")
    /\ gets' = [gets EXCEPT ![t] = @ + 1]
    /\ lastEv' = [lastEv EXCEPT ![t] = Ev("get_target", 0)]
    /\ headers' = [headers EXCEPT ![t] = 0]
    /\ UNCHANGED <<storeVars, retry_count, gurl, warm, resp, blocked, rets,
                   monVars, cmdVars, extractVars>>
    /\ UNCHANGED shop

\* lines 151-244 applied to the response: only line 241 touches shared state
Check(t) ==
    /\ gp[t] = "check"
    /\ LET r == resp[t]
           e == Extracted[r.body]
       IN  IF IsBlocked(r.status)
           THEN /\ gp' = [gp EXCEPT ![t] = "r_init"]
                /\ blocked' = [blocked EXCEPT ![t] = @ + 1]
                /\ UNCHANGED <<retry_count, rets, exc, ret>>
           ELSE IF RaisesForStatus(r.status)
           THEN /\ Raise(t, "HTTPError")
                /\ UNCHANGED <<retry_count, rets, blocked>>
           ELSE IF e.kind = "raise"
           THEN /\ Raise(t, e.exc)
                /\ UNCHANGED <<retry_count, rets, blocked>>
           ELSE /\ retry_count' = ResetOnSuccess(retry_count, gurl[t])
                /\ rets' = [rets EXCEPT ![gurl[t]] = <<>>]
                /\ ret' = [ret EXCEPT ![t] = e]
                /\ gp' = [gp EXCEPT ![t] = "return"]
                /\ UNCHANGED <<exc, blocked>>
    /\ UNCHANGED <<storeVars, gurl, headers, warm, resp, gets, lastEv, monVars, cmdVars, extractVars>>
    /\ UNCHANGED shop

\* lines 110-111
RetryInit(t) ==
    /\ gp[t] = "r_init"
    /\ retry_count' = IF gurl[t] \in DOMAIN retry_count THEN retry_count
                      ELSE (gurl[t] :> 0) @@ retry_count
    /\ gp' = [gp EXCEPT ![t] = "r_inc"]
    /\ UNCHANGED <<storeVars, gurl, headers, warm, resp, exc, ret, gets, blocked,
                   lastEv, rets, monVars, cmdVars, extractVars>>
    /\ UNCHANGED shop

\* line 113
RetryInc(t) ==
    /\ gp[t] = "r_inc"
    /\ retry_count' = [retry_count EXCEPT ![gurl[t]] = @ + 1]
    /\ gp' = [gp EXCEPT ![t] = "r_sleep"]
    /\ UNCHANGED <<storeVars, gurl, headers, warm, resp, exc, ret, gets, blocked,
                   lastEv, rets, monVars, cmdVars, extractVars>>
    /\ UNCHANGED shop

\* lines 114-115
RetrySleep(t) ==
    /\ gp[t] = "r_sleep"
    /\ lastEv' = [lastEv EXCEPT ![t] = Ev("backoff", Backoff(retry_count[gurl[t]]))]
    /\ gp' = [gp EXCEPT ![t] = "r_check"]
    /\ UNCHANGED <<storeVars, retry_count, gurl, headers, warm, resp, exc, ret,
                   gets, blocked, rets, monVars, cmdVars, extractVars>>
    /\ UNCHANGED shop

\* lines 117-120 and their use at lines 152-155
RetryCheck(t) ==
    /\ gp[t] = "r_check"
    /\ LET u == gurl[t]
           log == IF Len(rets[u]) >= MaxRetries THEN <<>> ELSE rets[u]
       IN  IF GiveUp(retry_count[u])
           THEN /\ retry_count' = [retry_count EXCEPT ![u] = 0]
                /\ rets' = [rets EXCEPT ![u] = Append(log, FALSE)]
                /\ Raise(t, "Exception")
                /\ UNCHANGED <<gurl, headers, warm, resp>>
           ELSE /\ rets' = [rets EXCEPT ![u] = Append(log, TRUE)]
                /\ Enter(t, u)
                /\ UNCHANGED retry_count
    /\ UNCHANGED <<storeVars, gets, blocked, lastEv, monVars, cmdVars, extractVars>>
    /\ UNCHANGED shop

GetPriceStep(t) ==
    \/ Headers1(t) \/ Warmup(t) \/ WarmSleep(t) \/ Delay(t) \/ Headers2(t)
    \/ Fetch(t) \/ FetchFails(t) \/ Check(t)
    \/ RetryInit(t) \/ RetryInc(t) \/ RetrySleep(t) \/ RetryCheck(t)

-----------------------------------------------------------------------------
(* save_products, lines 94-99, run by thread t.  The data file is opened    *)
(* for writing, which empties it, and json.dump then writes self.products   *)
(* through the handle; no lock is taken.  A handle is "overlapped" when     *)
(* another handle was open on the file at some time since it was opened:    *)
(* what the file then holds after the dump is the dumped store or a mix of  *)
(* the bytes written through the two handles.                               *)

File(kind, ks, store) == [kind |-> kind, keys |-> ks, store |-> store]

EmptyStore == [c \in {Chats[i] : i \in 1..Len(Chats)} |-> <<>>]

Truncated == File("empty", <<>>, EmptyStore)

Torn == File("torn", <<>>, EmptyStore)

\* line 97: what json.dump(self.products, f, indent=4) writes
SaveProducts(ks, store) == File("whole", ks, store)

\* line 96: open(self.data_file, 'w')
OpenForWrite(t) ==
    /\ writing' = [u \in Threads |->
                     IF u = t
                     THEN IF \E o \in Threads \ {t} : writing[o] # "closed"
                          THEN "overlapped" ELSE "open"
                     ELSE IF writing[u] # "closed" THEN "overlapped" ELSE "closed"]
    /\ saved' = Truncated

\* lines 97-99, and the end of the with block
Dump(t) ==
    /\ saved' \in IF writing[t] = "overlapped"
                  THEN {SaveProducts(keys, products), Torn}
                  ELSE {SaveProducts(keys, products)}
    /\ writing' = [writing EXCEPT ![t] = "closed"]

-----------------------------------------------------------------------------
(* check_prices, lines 389-435, run by thread "mon".                        *)

ChatSet == {Chats[i] : i \in 1..Len(Chats)}

Entry(u, n, p) == [url |-> u, name |-> n, last_price |-> p]

NoItem == Entry(NoUrl, NoName, Invalid)

HasUrl(list, u) == \E i \in 1..Len(list) : list[i].url = u

NumProducts(store) ==
    Cardinality({<<c, i>> \in ChatSet \X (1..Cardinality(Urls)) :
                    i <= Len(store[c])})

\* lines 420-421: self.products[chat_id][url]['last_price'] = current_price
SetPrice(store, c, u, p) ==
    [store EXCEPT ![c] = [i \in 1..Len(@) |->
        IF @[i].url = u THEN [@[i] EXCEPT !.last_price = p] ELSE @[i]]]

\* the end of a get_price call: its frame is dropped, the caller holds ret
Returned(t) ==
    /\ gp' = [gp EXCEPT ![t] = "idle"]
    /\ gurl' = [gurl EXCEPT ![t] = NoUrl]
    /\ headers' = [headers EXCEPT ![t] = 0]
    /\ warm' = [warm EXCEPT ![t] = "none"]
    /\ resp' = [resp EXCEPT ![t] = NoResp]
    /\ exc' = [exc EXCEPT ![t] = "none"]
    /\ gets' = [gets EXCEPT ![t] = 0]
    /\ blocked' = [blocked EXCEPT ![t] = 0]

\* lines 390-392: a cycle begins with list(self.products.keys())
CycleStart ==
    /\ mpc = "cycle"
    /\ chatsLeft' = keys
    /\ checked' = 0
    /\ delays' = 0
    /\ mpc' = "next_chat"
    /\ UNCHANGED <<cmdVars, extractVars>>
    /\ UNCHANGED <<storeVars, retry_count, gpVars, lastEv, rets, chat, items,
                   item, sendOk>>
    /\ UNCHANGED shop

\* lines 392-393: next chat_id, and list(self.products[chat_id].items())
NextChat ==
    /\ mpc = "next_chat"
    /\ IF chatsLeft = <<>>
       THEN /\ mpc' = "cycle_sleep"
            /\ UNCHANGED <<chatsLeft, chat, items>>
       ELSE /\ chat' = Head(chatsLeft)
            /\ chatsLeft' = Tail(chatsLeft)
            /\ items' = products[Head(chatsLeft)]
            /\ mpc' = "next_item"
    /\ UNCHANGED <<cmdVars, extractVars>>
    /\ UNCHANGED <<storeVars, retry_count, gpVars, lastEv, rets, item, checked,
                   delays, sendOk>>
    /\ UNCHANGED shop

\* lines 393-395: next (url, data), and the call of get_price
NextItem ==
    /\ mpc = "next_item"
    /\ IF items = <<>>
       THEN /\ mpc' = "next_chat"
            /\ UNCHANGED <<items, item, checked, gpVars, lastEv>>
       ELSE /\ item' = Head(items)
            /\ items' = Tail(items)
            /\ checked' = checked + 1
            /\ Call("mon", Head(items).url)
            /\ UNCHANGED <<headers, warm, resp, exc>>
            /\ mpc' = "await"
    /\ UNCHANGED <<cmdVars, extractVars>>
    /\ UNCHANGED <<storeVars, retry_count, rets, chatsLeft, chat, delays, sendOk>>
    /\ UNCHANGED shop

\* lines 395-403: the result of get_price is compared with data['last_price'];
\* the percentage of line 403 divides by it
Compare ==
    /\ mpc = "await"
    /\ gp["mon"] = "return"
    /\ Returned("mon")
    /\ mpc' = IF ret["mon"].kind = "raise" THEN "recover"
              ELSE IF ret["mon"].kind = "none" THEN "next_item"
              ELSE IF ret["mon"].price = item.last_price THEN "item_delay"
              ELSE IF IsZero(item.last_price) THEN "recover"
              ELSE "notify"
    \* current_price is read again only at lines 405-420
    /\ ret' = [ret EXCEPT !["mon"] = IF mpc' = "notify" THEN @ ELSE NoRet]
    /\ UNCHANGED <<cmdVars, extractVars>>
    /\ UNCHANGED <<storeVars, retry_count, lastEv, rets, chatsLeft, chat, items,
                   item, checked, delays, sendOk>>
    /\ UNCHANGED shop

\* lines 414-418: send_message; its exception is logged and dropped
Notify ==
    /\ mpc = "notify"
    /\ \E ok \in BOOLEAN : sendOk' = IF ok THEN "sent" ELSE "failed"
    /\ mpc' = "store"
    /\ UNCHANGED <<cmdVars, extractVars>>
    /\ UNCHANGED <<storeVars, retry_count, gpVars, lastEv, rets, chatsLeft, chat,
                   items, item, checked, delays>>
    /\ UNCHANGED shop

\* lines 420-421: the new price is stored; the call of line 422 follows
Store ==
    /\ mpc = "store"
    /\ IF HasUrl(products[chat], item.url)
       THEN /\ products' = SetPrice(products, chat, item.url, ret["mon"].price)
            /\ mpc' = "save_open"
       ELSE /\ mpc' = "recover"                      \* KeyError
            /\ UNCHANGED products
    /\ ret' = [ret EXCEPT !["mon"] = NoRet]
    /\ UNCHANGED <<cmdVars, extractVars>>
    /\ UNCHANGED <<keys, saved, writing, retry_count, gp, gurl, headers, warm, resp,
                   exc, gets, blocked, lastEv, rets, chatsLeft, chat, items, item,
                   checked, delays, sendOk>>
    /\ UNCHANGED shop

\* line 422, line 96
MonSaveOpen ==
    /\ mpc = "save_open"
    /\ OpenForWrite("mon")
    /\ mpc' = "save_dump"
    /\ UNCHANGED <<products, keys, retry_count, gpVars, lastEv, rets, chatsLeft, chat,
                   items, item, checked, delays, sendOk, cmdVars, extractVars>>
    /\ UNCHANGED shop

\* line 422, lines 97-99
MonSaveDump ==
    /\ mpc = "save_dump"
    /\ Dump("mon")
    /\ mpc' = "item_delay"
    /\ UNCHANGED <<products, keys, retry_count, gpVars, lastEv, rets, chatsLeft, chat,
                   items, item, checked, delays, sendOk, cmdVars, extractVars>>
    /\ UNCHANGED shop

\* line 425
ItemDelay ==
    /\ mpc = "item_delay"
    /\ \E d \in Uniform(MIN_DELAY, MAX_DELAY) :
         lastEv' = [lastEv EXCEPT !["mon"] = Ev("item_delay", d)]
    /\ delays' = delays + 1
    /\ sendOk' = "none"
    /\ mpc' = "next_item"
    /\ UNCHANGED <<cmdVars, extractVars>>
    /\ UNCHANGED <<storeVars, retry_count, gpVars, rets, chatsLeft, chat, items,
                   item, checked>>
    /\ UNCHANGED shop

\* lines 428-430
CycleSleep ==
    /\ mpc = "cycle_sleep"
    /\ \E r \in Uniform(60, 180) :
         lastEv' = [lastEv EXCEPT !["mon"] = Ev("cycle_sleep", CHECK_INTERVAL + r)]
    /\ mpc' = "cycle"
    /\ UNCHANGED <<cmdVars, extractVars>>
    /\ UNCHANGED <<storeVars, retry_count, gpVars, rets, chatsLeft, chat, items,
                   item, checked, delays, sendOk>>
    /\ UNCHANGED shop

\* a variant of lines 432-435 that leaves the loop after logging
RecoverAndStop ==
    /\ mpc = "recover"
    /\ lastEv' = [lastEv EXCEPT !["mon"] = Ev("recover_sleep", RecoverySleep)]
    /\ mpc' = "stopped"
    /\ UNCHANGED <<cmdVars, extractVars>>
    /\ UNCHANGED <<storeVars, retry_count, gpVars, rets, chatsLeft, chat, items,
                   item, checked, delays, sendOk>>
    /\ UNCHANGED shop

\* lines 432-435
Recover ==
    /\ mpc = "recover"
    /\ lastEv' = [lastEv EXCEPT !["mon"] = Ev("recover_sleep", RecoverySleep)]
    /\ mpc' = "cycle"
    /\ UNCHANGED <<cmdVars, extractVars>>
    /\ UNCHANGED <<storeVars, retry_count, gpVars, rets, chatsLeft, chat, items,
                   item, checked, delays, sendOk>>
    /\ UNCHANGED shop

MonitorStep ==
    \/ CycleStart \/ NextChat \/ NextItem \/ Compare \/ Notify \/ Store
    \/ MonSaveOpen \/ MonSaveDump \/ ItemDelay \/ CycleSleep \/ Recover

-----------------------------------------------------------------------------
(* The command handlers add_product (lines 281-334), remove_product (lines  *)
(* 351-369) and button_callback (lines 371-387), run one update at a time   *)
(* by the dispatcher thread "cmd".                                          *)

\* arguments of /add that are no product URL of the shop: another host, and
\* a URL without scheme, which urlparse reads as a path
ForeignUrl == "https://www.zalando.de/shoe"
BareUrl == "www.zalando.nl/shoe"

AddArgs == {NoArg} \cup Urls \cup {ForeignUrl, BareUrl}

\* line 103: urlparse(url).netloc
Netloc(url) ==
    IF url \in Urls THEN "www.zalando.nl"
    ELSE IF url = ForeignUrl THEN "www.zalando.de"
    ELSE ""

\* lines 101-106
is_valid_zalando_url(url) == Netloc(url) = "www.zalando.nl"

InSeq(x, seq) == \E i \in 1..Len(seq) : seq[i] = x

\* a variant of line 306 that tests the price only
PriceFetched(r) == r.kind = "pair"

\* line 306: not (price is None or not name)
Fetched(r) == r.kind = "pair" /\ r.name # ""

\* the handler of the update returns
Handled(op, c, a, answer) ==
    /\ cpc' = "idle"
    /\ cop' = op
    /\ cchat' = c
    /\ carg' = a
    /\ reply' = answer

\* lines 281-304: /add with argument a sent by chat c, up to the call of
\* get_price
AddProduct(c, a) ==
    /\ cpc = "idle"
    /\ keys0' = keys
    /\ IF a = NoArg
       THEN /\ Handled("add", c, a, "usage")
            /\ UNCHANGED <<keys, gpVars, lastEv>>
       ELSE IF ~is_valid_zalando_url(a)
       THEN /\ Handled("add", c, a, "invalid_url")
            /\ UNCHANGED <<keys, gpVars, lastEv>>
       ELSE /\ keys' = IF InSeq(c, keys) THEN keys ELSE Append(keys, c)
            /\ IF HasUrl(products[c], a)
               THEN /\ Handled("add", c, a, "duplicate")
                    /\ UNCHANGED <<gpVars, lastEv>>
               ELSE /\ cpc' = "add_await"
                    /\ cop' = "add"
                    /\ cchat' = c
                    /\ carg' = a
                    /\ reply' = "fetching"
                    /\ Call("cmd", a)
                    /\ UNCHANGED <<headers, warm, resp, exc>>
    /\ UNCHANGED <<products, saved, writing, retry_count, rets, monVars,
                   remove_urls, keyboards, label, extractVars>>
    /\ UNCHANGED shop

\* lines 304-321: get_price has returned
AddFetched ==
    /\ cpc = "add_await"
    /\ gp["cmd"] = "return"
    /\ Returned("cmd")
    /\ ret' = [ret EXCEPT !["cmd"] = NoRet]
    /\ IF Fetched(ret["cmd"])
       THEN /\ products' = [products EXCEPT ![cchat] =
                   Append(@, Entry(carg, ret["cmd"].name, ret["cmd"].price))]
            /\ cpc' = "save_open"
            /\ UNCHANGED reply
       ELSE /\ cpc' = "idle"
            /\ reply' = "fetch_failed"
            /\ UNCHANGED products
    /\ UNCHANGED <<keys, saved, writing, retry_count, lastEv, rets, monVars, cop,
                   cchat, carg, remove_urls, keyboards, keys0, label, extractVars>>
    /\ UNCHANGED shop

\* lines 322 and 382, line 96
CmdSaveOpen ==
    /\ cpc = "save_open"
    /\ OpenForWrite("cmd")
    /\ cpc' = "save_dump"
    /\ UNCHANGED <<products, keys, retry_count, gpVars, lastEv, rets, monVars, cop,
                   cchat, carg, remove_urls, keyboards, reply, keys0, label,
                   extractVars>>
    /\ UNCHANGED shop

\* lines 322 and 382, lines 97-99, and the reply of line 324 or line 383
CmdSaveDump ==
    /\ cpc = "save_dump"
    /\ Dump("cmd")
    /\ cpc' = "idle"
    /\ reply' = IF cop = "add" THEN "added" ELSE "removed"
    /\ UNCHANGED <<products, keys, retry_count, gpVars, lastEv, rets, monVars, cop,
                   cchat, carg, remove_urls, keyboards, keys0, label, extractVars>>
    /\ UNCHANGED shop

UrlsOf(list) == [i \in 1..Len(list) |-> list[i].url]

\* lines 351-369: /remove sent by chat c; button i carries callback data
\* rm_(i-1) and the name and price of the i-th product of the chat
RemoveProduct(c) ==
    /\ cpc = "idle"
    /\ keys0' = keys
    /\ IF products[c] = <<>>
       THEN /\ Handled("remove", c, NoArg, "no_products")
            /\ UNCHANGED <<remove_urls, keyboards>>
       ELSE /\ Handled("remove", c, NoArg, "keyboard")
            /\ remove_urls' = UrlsOf(products[c])
            /\ keyboards' = [keyboards EXCEPT ![c] = @ \cup {UrlsOf(products[c])}]
    /\ UNCHANGED <<storeVars, retry_count, gpVars, lastEv, rets, monVars, label,
                   extractVars>>
    /\ UNCHANGED shop

\* lines 377-379: the url button i stands for, NoUrl when the handler finds
\* none to remove
RemovedUrl(list, i) ==
    IF i \in DOMAIN remove_urls /\ HasUrl(list, remove_urls[i])
    THEN remove_urls[i] ELSE NoUrl

Without(list, u) == SelectSeq(list, LAMBDA e : e.url # u)

\* lines 371-387: chat c presses button i of keyboard kb, one it was sent
ButtonPress(c, kb, i) ==
    /\ cpc = "idle"
    /\ kb \in keyboards[c]
    /\ i \in 1..Len(kb)
    /\ keys0' = keys
    /\ label' = kb[i]
    /\ cop' = "button"
    /\ cchat' = c
    /\ carg' = NoArg
    /\ IF RemovedUrl(products[c], i) # NoUrl
       THEN /\ products' = [products EXCEPT ![c] =
                               Without(@, RemovedUrl(products[c], i))]
            /\ cpc' = "save_open"
            /\ UNCHANGED reply
       ELSE /\ cpc' = "idle"
            /\ reply' = IF i \in DOMAIN remove_urls THEN "not_found"
                         ELSE "invalid_request"
            /\ UNCHANGED products
    /\ UNCHANGED <<keys, saved, writing, retry_count, gpVars, lastEv, rets, monVars,
                   remove_urls, keyboards, extractVars>>
    /\ UNCHANGED shop

-----------------------------------------------------------------------------
(* The state after __init__ (lines 35-44): the store is what load_products  *)
(* read from the data file.                                                 *)

StorePrices == {ParsePrice(T0), ParsePrice(T5)}

Entries == {Entry(u, "Shoe", p) : u \in Urls, p \in StorePrices}

ProductLists ==
    {l \in UNION {[1..n -> Entries] : n \in 0..Cardinality(Urls)} :
        \A i, j \in 1..Len(l) : i # j => l[i].url # l[j].url}

InitStores == {st \in [ChatSet -> ProductLists] : NumProducts(st) <= MaxProducts}

\* __init__ has run with load_products returning `store` with keys `ks`
Started(store, ks) ==
    /\ products = store
    /\ keys = ks
    /\ saved = SaveProducts(ks, store)
    /\ writing = [t \in Threads |-> "closed"]
    /\ cpc = "idle"
    /\ cop = "none"
    /\ cchat = Chats[1]
    /\ carg = NoArg
    /\ remove_urls = <<>>
    /\ keyboards = [c \in ChatSet |-> {}]
    /\ reply = "none"
    /\ keys0 = ks
    /\ label = NoUrl
    /\ retry_count = [u \in {} |-> 0]
    /\ gp = [t \in Threads |-> "idle"]
    /\ gurl = [t \in Threads |-> NoUrl]
    /\ headers = [t \in Threads |-> 0]
    /\ warm = [t \in Threads |-> "none"]
    /\ resp = [t \in Threads |-> NoResp]
    /\ exc = [t \in Threads |-> "none"]
    /\ ret = [t \in Threads |-> NoRet]
    /\ gets = [t \in Threads |-> 0]
    /\ blocked = [t \in Threads |-> 0]
    /\ lastEv = [t \in Threads |-> Ev("start", 0)]
    /\ rets = [u \in Urls |-> <<>>]
    /\ mpc = "cycle"
    /\ chatsLeft = <<>>
    /\ chat = Chats[1]
    /\ items = <<>>
    /\ item = NoItem
    /\ checked = 0
    /\ delays = 0
    /\ sendOk = "none"

\* no document is being looked at
NoExtraction ==
    /\ page = <<>>
    /\ found = -1
    /\ price_text = <<>>
    /\ price = NoPrice

\* every chat of the model has a dict in the store, possibly an empty one
Init ==
    /\ \E st \in InitStores : Started(st, Chats)
    /\ NoExtraction
    /\ shop = Responses

\* the monitoring thread alone
Next == MonitorStep \/ GetPriceStep("mon")

Spec == Init /\ [][Next]_vars

\* The monitoring thread under fair scheduling, with HTTP calls and sleeps
\* that return; the store holds the first URL only, for one chat or for both.
FairInit ==
    /\ \E st \in InitStores : Started(st, Chats)
    /\ NoExtraction
    /\ shop = Responses
    /\ \A c \in ChatSet : \A i \in 1..Len(products[c]) : products[c][i].url = "u1"

FairSpec == FairInit /\ [][Next]_vars /\ WF_vars(Next)

-----------------------------------------------------------------------------
(* The dispatcher thread alone.  load_products may have read any store of   *)
(* at most MaxProducts products, its chats in any order, chats without      *)
(* products included or not.                                                *)

KeyOrders(store) ==
    {ks \in UNION {[1..n -> ChatSet] : n \in 0..Len(Chats)} :
        /\ \A i, j \in 1..Len(ks) : i # j => ks[i] # ks[j]
        /\ \A c \in ChatSet : store[c] # <<>> => InSeq(c, ks)}

CmdInit ==
    /\ \E st \in InitStores : \E ks \in KeyOrders(st) : Started(st, ks)
    /\ NoExtraction
    /\ shop = Responses

\* /add commands only
AddNext ==
    \/ \E c \in ChatSet : \E a \in AddArgs : AddProduct(c, a)
    \/ AddFetched
    \/ CmdSaveOpen
    \/ CmdSaveDump
    \/ GetPriceStep("cmd")

AddSpec == CmdInit /\ [][AddNext]_vars

\* /remove commands and presses of the buttons they sent
RemoveNext ==
    \/ \E c \in ChatSet : RemoveProduct(c)
    \/ \E c \in ChatSet : \E kb \in keyboards[c] : \E i \in 1..Len(kb) :
          ButtonPress(c, kb, i)
    \/ CmdSaveOpen
    \/ CmdSaveDump

RemoveSpec == CmdInit /\ [][RemoveNext]_vars

-----------------------------------------------------------------------------
(* The monitoring thread and the dispatcher thread together (lines 452-457).*)
(* The store holds one product, the first URL monitored by the first chat.  *)

\* the shop answers with a 403 or with a product page that is extracted
SysResponses ==
    { r \in Responses :
        \/ r.status = 403 /\ r.body = ErrorBody
        \/ r.status = 200 /\ r.body \in GoodDocs /\ Extracted[r.body].kind = "pair" }

SysInit ==
    /\ \E p \in StorePrices :
          Started([EmptyStore EXCEPT ![Chats[1]] = <<Entry("u1", "Shoe", p)>>],
                  <<Chats[1]>>)
    /\ NoExtraction
    /\ shop = SysResponses

\* The run up to the return of the first get_price call of each thread: the
\* monitoring thread reaches line 395 for the stored URL, and the second chat
\* sends one /add of the same URL (line 304) at any time.
RaceNext ==
    \/ CycleStart
    \/ NextChat
    \/ NextItem
    \/ GetPriceStep("mon")
    \/ (reply = "none" /\ AddProduct(Chats[2], "u1"))
    \/ GetPriceStep("cmd")

RaceSpec == SysInit /\ [][RaceNext]_vars

\* The monitoring thread, and the dispatcher thread handling /remove commands
\* and button presses of the first chat.
SaveNext ==
    \/ MonitorStep
    \/ GetPriceStep("mon")
    \/ RemoveProduct(Chats[1])
    \/ (\E kb \in keyboards[Chats[1]] : \E i \in 1..Len(kb) :
          ButtonPress(Chats[1], kb, i))
    \/ CmdSaveOpen
    \/ CmdSaveDump

SaveSpec == SysInit /\ [][SaveNext]_vars

-----------------------------------------------------------------------------
(* The price normalisation of lines 225-238 as a function of the text of    *)
(* the price element: the texts are all texts of at most MaxTextLen         *)
(* characters over TextAlphabet, and the texts of SampleTexts.              *)

TextAlphabet == {"0", "1", ".", ",", "EUR", "^2"}

SampleTexts ==
    { <<"3", "8", ",", "9", "9">>,
      <<"1", ".", "2", "3", "4", ",", "5", "6">>,
      <<"1", "2", "3", "5", "0", "0">>,
      <<"4", "5", ".", "0", "0">>,
      <<"1", "0", "0", "0">>,
      <<"1", "0", "0", "1">>,
      <<"EUR", " ", "1", ".", "2", "3", "4">>,
      <<"3", "8", ".", "9", "9">> }

Texts == SampleTexts \cup UNION {[1..n -> TextAlphabet] : n \in 0..MaxTextLen}

NormInit ==
    /\ Started(EmptyStore, <<>>)
    /\ page = <<>>
    /\ found = -1
    /\ price_text \in Texts
    /\ price = NoPrice
    /\ shop = Responses

\* lines 225-238
Normalize ==
    /\ price = NoPrice
    /\ price' = ParsePrice(price_text)
    /\ UNCHANGED <<storeVars, retry_count, gpVars, lastEv, rets, monVars, cmdVars,
                   page, found, price_text>>
    /\ UNCHANGED shop

NormNext == Normalize

NormSpec == NormInit /\ [][NormNext]_vars

-----------------------------------------------------------------------------
(* The price lookup of lines 196-223 as a function of the document: the     *)
(* documents are all sequences of at most MaxElements elements, each with   *)
(* one of the tag and attribute combinations below and one of three texts.  *)

TEuro == <<"EUR">>

ElementShapes ==
    { El("span", {<<"data-testid", "product-price">>}, <<>>),
      El("span", {<<"class", "sDq_FX">>}, <<>>),
      El("span", {<<"class", "QPDz2E">>, <<"data-testid", "product-price">>}, <<>>),
      El("p", {<<"data-testid", "price">>}, <<>>),
      El("p", {<<"class", "sDq_FX">>}, <<>>),
      El("span", {}, <<>>),
      El("div", {}, <<>>),
      El("h1", {}, <<>>) }

Elements == {El(e.tag, e.attrs, t) : e \in ElementShapes, t \in {T5, TSale, TEuro}}

Pages == UNION {[1..n -> Elements] : n \in 0..MaxElements}

LookupInit ==
    /\ Started(EmptyStore, <<>>)
    /\ page \in Pages
    /\ found = -1
    /\ price_text = <<>>
    /\ price = NoPrice
    /\ shop = Responses

\* lines 196-223 applied to the parsed document
FindPrice ==
    /\ found = -1
    /\ found' = PriceLookup(page)
    /\ UNCHANGED <<storeVars, retry_count, gpVars, lastEv, rets, monVars, cmdVars,
                   page, price_text, price>>
    /\ UNCHANGED shop

LookupNext == FindPrice

LookupSpec == LookupInit /\ [][LookupNext]_vars

-----------------------------------------------------------------------------
(* Properties of get_price and _handle_retry *)

RetryPcs == {"r_init", "r_inc", "r_sleep", "r_check"}

IsPrefix(a, b) == Len(a) <= Len(b) /\ SubSeq(b, 1, Len(a)) = a

\* the target GET of the returning frame raised (no response was bound)
NetworkError(t) == resp[t] = NoResp /\ exc[t] = "RequestException"

\* the returning frame received a response that is not a 403
Answered(t) == resp[t] # NoResp /\ resp[t].status # 403

\* the body of the response fails the captcha test or the extraction
BadBody(t) == Extracted[resp[t].body].kind = "raise"

C2_TrueTrueFalse ==
    \A u \in Urls :
        /\ IsPrefix(rets[u], <<TRUE, TRUE, FALSE>>)
        /\ (\A t \in Threads : ~(gurl[t] = u /\ gp[t] \in {"r_sleep", "r_check"}))
              => Counter(u) = Len(rets[u]) % 3

\* C2 witness: the third call for a URL has returned FALSE and the counter is 0
C2_Witness ==
    /\ gp["mon"] = "return" /\ exc["mon"] = "Exception"
    /\ rets[gurl["mon"]] = <<TRUE, TRUE, FALSE>>
    /\ Counter(gurl["mon"]) = 0

\* C3: a get_price call of a lone caller terminates, and it issues at most 3
\* GETs of the target URL, whatever the counter of the URL was before the
\* call and even if every response is a 403.
C3_AtMostThreeGets ==
    /\ [](\A t \in Threads : gets[t] <= 3)
    /\ (gp["mon"] = "headers1") ~> (gp["mon"] = "return")

\* C3 witness: a call has returned after three 403 responses
C3_Witness ==
    /\ gp["mon"] = "return" /\ gets["mon"] = 3 /\ blocked["mon"] = 3

C5_CounterResets ==
    [][\A u \in Urls :
          /\ (Counter(u) # 0 /\ Counter(u)' = 0) =>
                \E t \in Threads :
                   /\ gurl[t] = u
                   /\ \/ gp[t] = "check" /\ ret'[t].kind = "pair"
                      \/ gp[t] = "r_check" /\ exc'[t] = "Exception"
          /\ \A t \in Threads :
                (gurl[t] = u /\ gp[t] = "check" /\ ret'[t].kind = "pair") =>
                   /\ Counter(u)' = 0
                   /\ rets'[u] = <<>>
          /\ Counter(u)' # Counter(u) => \E t \in Threads : gurl[t] = u
      ]_vars

\* C5 witness: a call has succeeded after two 403 responses and the counter
\* of its URL is 0
C5_Witness ==
    /\ gp["mon"] = "return" /\ ret["mon"].kind = "pair" /\ blocked["mon"] = 2
    /\ Counter(gurl["mon"]) = 0 /\ rets[gurl["mon"]] = <<>>

\* C6: each call of _handle_retry sleeps min(300, 30 * 2^(c-1)) seconds, c
\* being the counter after the increment of that call, before it returns,
\* also when it gives up; for a lone caller the sleeps are 30, 60 and 120
\* seconds in this order and never more than 300.
C6_BackoffSleeps ==
    \A t \in Threads :
        /\ gp[t] = "r_check" =>
              /\ lastEv[t].kind = "backoff"
              /\ lastEv[t].secs = Min(300, 30 * Pow(2, retry_count[gurl[t]] - 1))
              /\ lastEv[t].secs = <<30, 60, 120>>[retry_count[gurl[t]]]
              /\ lastEv[t].secs <= 300
        /\ (gp[t] = "headers1" /\ gets[t] > 0) =>
              lastEv[t] = Ev("backoff", <<30, 60>>[Counter(gurl[t])])
        /\ (gp[t] = "return" /\ exc[t] = "Exception") =>
              lastEv[t] = Ev("backoff", 120)

\* C6 witness: a call gave up after sleeping 120 seconds, its third backoff
C6_Witness ==
    /\ gp["mon"] = "return" /\ exc["mon"] = "Exception" /\ blocked["mon"] = 3
    /\ lastEv["mon"] = Ev("backoff", 120)

\* C10 (as amended): every GET of the target URL, on retries too, is
\* immediately preceded by a delay drawn from [MIN_DELAY, MAX_DELAY]; the
\* warm-up GET of the home page is issued with no delay before it, at the
\* start of the call or right after the backoff sleep of a retry.
C10_TargetFetchDelayed ==
    [][\A t \in Threads :
          /\ (gp[t] = "fetch" /\ gp'[t] # "fetch") =>
                /\ lastEv[t].kind = "delay"
                /\ lastEv[t].secs \in MIN_DELAY..MAX_DELAY
          /\ (gp[t] = "warmup" /\ gp'[t] # "warmup") =>
                lastEv[t].kind \in {"call", "backoff"}
      ]_vars

\* C10 witness: the target URL has been fetched a second time, on a retry
C10_Witness ==
    /\ gp["mon"] = "check" /\ gets["mon"] = 2 /\ lastEv["mon"].kind = "get_target"

\* C10 as stated: every fetch of get_price, the warm-up GET too, is
\* immediately preceded by a delay drawn from [MIN_DELAY, MAX_DELAY]
C10_AsStated ==
    [][\A t \in Threads :
          (gp[t] \in {"warmup", "fetch"} /\ gp'[t] # gp[t]) =>
             /\ lastEv[t].kind = "delay"
             /\ lastEv[t].secs \in MIN_DELAY..MAX_DELAY
      ]_vars

\* what a returning frame owes its caller, as a function of the outcome of
\* its target fetch alone
Outcome(t) ==
    IF resp[t] = NoResp \/ resp[t].status \in 400..599 THEN None
    ELSE IF Extracted[resp[t].body].kind = "pair" THEN Extracted[resp[t].body]
    ELSE None

\* C11: a failed warm-up request does not abort get_price: the frame goes on
\* to the delay, draws the headers again (the first draw is gone with the
\* warm-up request) and issues the GET of the target URL; when the call
\* returns, its result is the function Outcome of the target response,
\* whether the warm-up failed or succeeded.
C11_WarmupFailureTolerated ==
    \A t \in Threads :
        /\ gp[t] = "fetch" => headers[t] \in 1..NumUserAgents
        /\ (gp[t] = "delay" /\ warm[t] = "failed") => headers[t] = 0
        /\ (gp[t] = "return" /\ warm[t] = "failed") =>
              /\ gets[t] >= 1
              /\ lastEv[t].kind \in {"get_target", "backoff"}
        /\ gp[t] = "return" => ret[t] = Outcome(t)

\* C11 witness: a call whose warm-up request failed returns a (price, name)
\* pair after one GET of the target URL
C11_Witness ==
    /\ gp["mon"] = "return" /\ warm["mon"] = "failed" /\ gets["mon"] = 1
    /\ ret["mon"].kind = "pair"

-----------------------------------------------------------------------------
(* Properties of the price normalisation.  The reference rules are written  *)
(* from their statement: a text is cleaned character by character, cut into *)
(* the segments between its dots, and read as whole part and fraction.      *)

RECURSIVE RefClean(_)
RefClean(s) ==
    IF s = <<>> THEN <<>>
    ELSE IF Head(s) = "," THEN <<".">> \o RefClean(Tail(s))
    ELSE IF Head(s) = "." \/ IsDigit(Head(s)) THEN <<Head(s)>> \o RefClean(Tail(s))
    ELSE RefClean(Tail(s))

RECURSIVE RefSplit(_)
RefSplit(s) ==
    IF \A i \in 1..Len(s) : s[i] # "." THEN <<s>>
    ELSE LET d == CHOOSE i \in 1..Len(s) :
                      s[i] = "." /\ \A j \in 1..(i - 1) : s[j] # "."
         IN  <<SubSeq(s, 1, d - 1)>> \o RefSplit(SubSeq(s, d + 1, Len(s)))

RECURSIVE RefConcat(_)
RefConcat(segs) == IF segs = <<>> THEN <<>> ELSE Head(segs) \o RefConcat(Tail(segs))

RefDigit(c) ==
    CASE c = "0" -> 0 [] c = "1" -> 1 [] c = "2" -> 2 [] c = "3" -> 3 [] c = "4" -> 4
      [] c = "5" -> 5 [] c = "6" -> 6 [] c = "7" -> 7 [] c = "8" -> 8 [] c = "9" -> 9

RECURSIVE RefNat(_, _)
RefNat(s, acc) == IF s = <<>> THEN acc ELSE RefNat(Tail(s), 10 * acc + RefDigit(Head(s)))

RECURSIVE RefStripZeros(_)
RefStripZeros(s) ==
    IF s # <<>> /\ s[Len(s)] = "0" THEN RefStripZeros(SubSeq(s, 1, Len(s) - 1)) ELSE s

\* the value m / 10^k of the reference rules, or Invalid for no result
RefNormalize(raw) ==
    LET segs == RefSplit(RefClean(raw))
        n == Len(segs)
        whole == IF n = 1 THEN segs[1] ELSE RefConcat(SubSeq(segs, 1, n - 1))
        fraction == IF n = 1 THEN <<>> ELSE segs[n]
        all == whole \o fraction
        v == RefNat(whole, 0)
    IN  IF all = <<>> \/ \E i \in 1..Len(all) :
                            all[i] \notin {"0", "1", "2", "3", "4", "5", "6", "7", "8", "9"}
        THEN Invalid
        ELSE IF n = 1 /\ v > 1000
        THEN IF v % 100 = 0 THEN [m |-> v \div 100, k |-> 0]
             ELSE IF v % 10 = 0 THEN [m |-> v \div 10, k |-> 1]
             ELSE [m |-> v, k |-> 2]
        ELSE [m |-> RefNat(whole \o RefStripZeros(fraction), 0),
              k |-> Len(RefStripZeros(fraction))]

\* C12 as stated: every price the normalisation of get_price yields is a
\* non-negative decimal with at most 2 fractional digits, whatever the text
\* of the matched price element.
C12_AsStated ==
    price \notin {NoPrice, Invalid} => price.m >= 0 /\ price.k <= 2

\* C13: for every raw text the normalisation of lines 225-238 gives the
\* result of the reference rules (drop what is not a digit, '.' or ',';
\* ',' becomes '.'; with more than one '.', the segments but the last are
\* joined and one '.' put before the last; parse; divide by 100 exactly
\* when the value exceeds 1000 and the cleaned text has no '.'), and no
\* result when the cleaned text is not a decimal number.  "38,99" gives
\* 38.99, "1.234,56" gives 1234.56, "123500" gives 1235, "45.00" gives 45,
\* "1000" stays 1000 and "1001" gives 10.01.  (A digit is a character for
\* which str.isdigit is true.)
C13_NormalizationRules ==
    price # NoPrice =>
        /\ price = RefNormalize(price_text)
        /\ price_text = <<"3", "8", ",", "9", "9">> => price = [m |-> 3899, k |-> 2]
        /\ price_text = <<"1", ".", "2", "3", "4", ",", "5", "6">>
              => price = [m |-> 123456, k |-> 2]
        /\ price_text = <<"1", "2", "3", "5", "0", "0">> => price = [m |-> 1235, k |-> 0]
        /\ price_text = <<"4", "5", ".", "0", "0">> => price = [m |-> 45, k |-> 0]
        /\ price_text = <<"1", "0", "0", "0">> => price = [m |-> 1000, k |-> 0]
        /\ price_text = <<"1", "0", "0", "1">> => price = [m |-> 1001, k |-> 2]
        /\ price_text = <<"3", "8", ".", "9", "9">> => price = [m |-> 3899, k |-> 2]
        /\ price_text \in {<<>>, <<".">>, <<"EUR">>, <<"1", "^2">>} => price = Invalid

\* C13 witness: "1.234,56" has been normalised to 1234.56
C13_Witness ==
    /\ price_text = <<"1", ".", "2", "3", "4", ",", "5", "6">>
    /\ price = [m |-> 123456, k |-> 2]

-----------------------------------------------------------------------------
(* Properties of the price lookup *)

Qualifies(el) ==
    /\ \E i \in 1..Len(el.text) : el.text[i] = "EUR"
    /\ \E i \in 1..Len(el.text) : IsDigit(el.text[i])

\* the pairs (selector, element) of a qualifying element found by a selector
SelectorHits(elems) ==
    {h \in (1..Len(price_selectors)) \X (1..Len(elems)) :
        /\ elems[h[2]].tag = price_selectors[h[1]].tag
        /\ <<price_selectors[h[1]].attr, price_selectors[h[1]].val>> \in elems[h[2]].attrs
        /\ Qualifies(elems[h[2]])}

\* the qualifying span, p and div elements
GenericHits(elems) ==
    {i \in 1..Len(elems) : elems[i].tag \in {"span", "p", "div"} /\ Qualifies(elems[i])}

\* no element carries a data-testid attribute
NoTestId(elems) ==
    \A i \in 1..Len(elems) : \A a \in elems[i].attrs : a[1] # "data-testid"

\* C14: the price lookup returns the qualifying element that comes first in
\* the order "selector in list order, then document order"; only when no
\* selector finds a qualifying element, the first qualifying span, p or div
\* in document order; and nothing when no element qualifies (get_price then
\* has no result).  A document in which only a legacy class-name selector
\* matches still yields a price.
C14_FallbackChain ==
    found # -1 =>
        /\ SelectorHits(page) # {} =>
              \E k \in 1..Len(price_selectors) :
                 /\ <<k, found>> \in SelectorHits(page)
                 /\ \A h \in SelectorHits(page) :
                       k < h[1] \/ (k = h[1] /\ found <= h[2])
        /\ (SelectorHits(page) = {} /\ GenericHits(page) # {}) =>
              /\ found \in GenericHits(page)
              /\ \A i \in GenericHits(page) : found <= i
        /\ GenericHits(page) = {} =>
              /\ found = 0
              /\ Extract(Doc(FALSE, "Shoe", page)).kind = "raise"
        /\ (NoTestId(page) /\ SelectorHits(page) # {}) =>
              /\ found # 0
              /\ Extract(Doc(FALSE, "Shoe", page)) =
                    [kind |-> "pair", price |-> ParsePrice(page[found].text),
                     name |-> "Shoe"]

\* C14 witness: the document holds a qualifying generic span followed by a
\* qualifying span of the legacy class sDq_FX, and no data-testid; the
\* lookup returns the second element
C14_Witness ==
    /\ found = 2
    /\ page = << El("span", {}, T5), El("span", {<<"class", "sDq_FX">>}, T5) >>

-----------------------------------------------------------------------------
(* Properties of the command handlers *)

AddFailures == {"usage", "invalid_url", "duplicate", "fetch_failed"}

\* the step ends an /add command with one of the failure replies
AddFails == cop' = "add" /\ cpc # cpc' /\ cpc' = "idle" /\ reply' \in AddFailures

\* the step changes the list of a chat only by appending to the list of
\* the calling chat the product just fetched, and only when the host of the
\* URL is www.zalando.nl, the chat does not monitor the URL yet and
\* get_price returned a price and a non-empty name; the file is written
\* only after such an insertion
InsertsOnlyFetched ==
    /\ \A c \in ChatSet : c # cchat' => products'[c] = products[c]
    /\ products' # products =>
          /\ cpc = "add_await"
          /\ ret["cmd"].kind = "pair" /\ ret["cmd"].name # ""
          /\ Netloc(carg) = "www.zalando.nl"
          /\ ~HasUrl(products[cchat], carg)
          /\ products'[cchat] =
                Append(products[cchat], Entry(carg, ret["cmd"].name, ret["cmd"].price))
    /\ saved' # saved =>
          /\ cpc \in {"save_open", "save_dump"}
          /\ HasUrl(products[cchat], carg)
    /\ cpc' = "idle" /\ reply' = "added" =>
          saved' = [kind |-> "whole", keys |-> keys, store |-> products]

\* C17 (as amended): an /add command inserts a product into the calling
\* chat's list only when the host is www.zalando.nl, the URL is not yet
\* monitored by that chat and get_price returned a price and a non-empty
\* name; in every other case the product lists of all chats, in memory and
\* persisted, are left as they were, and no other chat's list is ever
\* changed.  The only other change of the store is in memory: a calling
\* chat that has no entry in the store gets an empty one as soon as the
\* host of the URL is found valid, whether or not the command then succeeds.
C17_AddInsertsOnlyFetched ==
    [][ /\ InsertsOnlyFetched
        /\ AddFails => products' = products /\ saved' = saved
        /\ keys' # keys =>
              /\ cpc = "idle" /\ cpc' \in {"idle", "add_await"}
              /\ Netloc(carg') = "www.zalando.nl"
              /\ ~InSeq(cchat', keys) /\ products[cchat'] = <<>>
              /\ keys' = Append(keys, cchat')
      ]_vars

\* C17 witness: an /add by a chat without entry in the store has failed at
\* the fetch; the chat now has an empty entry and no list has changed
C17_Witness ==
    /\ cop = "add" /\ cpc = "idle" /\ reply = "fetch_failed"
    /\ keys = Append(keys0, cchat) /\ products[cchat] = <<>>
    /\ saved.keys = keys0

\* C17 as stated: when an /add command fails, the store in memory (its
\* chats and their lists) and the persisted store are exactly what they
\* were before the command
C17_AsStated ==
    [][ /\ InsertsOnlyFetched
        /\ AddFails => products' = products /\ saved' = saved /\ keys' = keys0
      ]_vars

\* C18 as stated: a press of a removal button removes from the pressing
\* chat's list exactly the product the button was labelled with when its
\* keyboard was sent, or removes nothing; it never removes another product.
C18_AsStated ==
    [][ (cop' = "button" /\ products' # products) =>
           /\ HasUrl(products[cchat'], label')
           /\ products' = [products EXCEPT ![cchat'] = Without(@, label')]
      ]_vars

-----------------------------------------------------------------------------
(* Properties of check_prices *)

\* C7 as stated: a failure while processing one product never prevents the
\* remaining products of the cycle from being checked: when a cycle ends, by
\* its inter-cycle sleep or by the handler of line 432, get_price has been
\* called for every product of the store.
C7_AsStated ==
    mpc \in {"cycle_sleep", "recover"} => checked = NumProducts(products)

\* C8 as stated: a cycle that processes N products sleeps N per-product
\* delays from [MIN_DELAY, MAX_DELAY], one after each product whether its
\* fetch succeeded or failed, and then one inter-cycle delay of
\* check_interval plus a value in 60..180; no two products are fetched
\* without a per-product delay between them.
C8_AsStated ==
    /\ mpc = "cycle_sleep" => delays = checked
    /\ mpc = "await" => delays = checked - 1
    /\ lastEv["mon"].kind = "item_delay" =>
          lastEv["mon"].secs \in MIN_DELAY..MAX_DELAY
    /\ lastEv["mon"].kind = "cycle_sleep" =>
          lastEv["mon"].secs - CHECK_INTERVAL \in 60..180

\* the entry of the product being checked, as the store holds it
Stored(store, c, u) ==
    LET list == store[c]
    IN  list[CHOOSE i \in 1..Len(list) : list[i].url = u]

\* C16 as stated: in the check of a product with stored last_price q, when
\* get_price returns a price p different from q, one notification is
\* attempted (whether it is sent or fails), then last_price is set to p and
\* the store is persisted; when p equals q or get_price returns no result,
\* no notification is sent and the stored entry is unchanged.
C16_AsStated ==
    [][ /\ (mpc = "await" /\ mpc' # "await") =>
              IF ret["mon"].kind = "pair" /\ ret["mon"].price # item.last_price
              THEN mpc' = "notify"
              ELSE /\ mpc' \in {"item_delay", "next_item"}
                   /\ products' = products /\ saved' = saved
        /\ (mpc = "notify" /\ mpc' # "notify") =>
              /\ sendOk' \in {"sent", "failed"}
              /\ mpc' = "store"
        /\ (mpc = "store" /\ mpc' # "store") =>
              /\ HasUrl(products'[chat], item.url)
              /\ Stored(products', chat, item.url).last_price = ret["mon"].price
              /\ mpc' = "save_open"
        /\ (mpc = "save_dump" /\ mpc' # "save_dump") =>
              /\ saved' = [kind |-> "whole", keys |-> keys, store |-> products]
              /\ mpc' = "item_delay"
      ]_vars

\* C20 as stated: under fair scheduling, with HTTP calls and sleeps that
\* return, get_price is called again and again for the products of every
\* chat that has products, whatever the stored prices of the other products.
C20_AsStated ==
    \A c \in ChatSet :
        [](products[c] # <<>> => <>(mpc = "await" /\ chat = c /\ gp["mon"] # "idle"))

\* C9: the monitoring task never terminates: after an uncaught error in a
\* cycle it sleeps the recovery interval of 60 seconds and starts a new
\* cycle, and from every state a further cycle is eventually started.
C9_MonitorNeverStops ==
    /\ []<>(mpc = "cycle")
    /\ (mpc = "recover") ~> (mpc = "next_chat" /\ lastEv["mon"] = Ev("recover_sleep", 60))

\* C9 witness: a new cycle has started after the recovery sleep
C9_Witness ==
    /\ mpc = "next_chat" /\ lastEv["mon"] = Ev("recover_sleep", 60)
    /\ chatsLeft = Chats /\ checked = 0


-----------------------------------------------------------------------------
(* Properties of the two threads running together.                          *)

\* C15: writes of the data file are serialized: at no time are two executions
\* of save_products in progress at once, one by the monitoring thread and one
\* by a command handler, and the file is never the interleaving of two
\* partial writes.
C15_AsStated ==
    /\ ~(writing["mon"] # "closed" /\ writing["cmd"] # "closed")
    /\ saved.kind # "torn"

\* C19: when both threads run get_price for the same URL concurrently, the
\* URL's retry counter stays within 0..3 and each call gives up after at most
\* 3 Blocked responses of its own.
C19_AsStated ==
    /\ \A u \in DOMAIN retry_count : retry_count[u] \in 0..MaxRetries
    /\ \A t \in Threads : blocked[t] <= MaxRetries

=============================================================================
